---- MODULE Spec2Model ----
(***************************************************************************)
(* Model of the hardware host table of the FBOSS agent                     *)
(* (fboss/agent/hw/bcm/BcmHost.cpp): BcmHost, BcmEcmpHost and BcmHostTable. *)
(*                                                                         *)
(* The three reference counted registries (hosts_, ecmpHosts_, egressMap_),*)
(* the port reverse index (port2EgressIds_) and the hardware L3 host table *)
(* are the state.  Operations on a single BcmHost are one action each.     *)
(* Construction and destruction of a BcmEcmpHost are sequences of steps    *)
(* (one per member), so that the order of the releases and the states met  *)
(* during a rollback can be stated.                                        *)
(***************************************************************************)
EXTENDS Integers, Sequences, FiniteSets, TLC

\* ------------------------------------------------------------------ bounds
NumAddrs == 2       \* next-hop addresses
NumIntfs == 2       \* interface ids
NumPorts == 2       \* physical ports 1..NumPorts (0 is "no port")
MaxEgress == 4      \* egress ids the hardware can hand out
MaxPaths == 2       \* next hops of one ECMP host key
MaxOps == 4         \* public operations called in one run
NumDiscovered == 1  \* addresses 1..NumDiscovered may be in the warm boot cache
MaxHostOps == 5     \* operations called in one run of SpecHosts

\* BcmEgressBase::INVALID, the "unassigned" egress id
INVALID == -1

Vrfs == {0}
Addrs == 1..NumAddrs
Intfs == 1..NumIntfs
Ports == 0..NumPorts
EgressIds == 1..MaxEgress

\* key of hosts_: (vrf, addr)
HostKeys == Vrfs \X Addrs
\* RouteForwardInfo: (intf, nexthop)
NextHops == Intfs \X Addrs

\* operator< of RouteForwardInfo: by interface, then by address
NhLess(a, b) == a[1] < b[1] \/ (a[1] = b[1] /\ a[2] < b[2])

\* RouteForwardNexthops: a flat_set, i.e. a strictly increasing sequence
RouteForwardNexthops ==
  {s \in UNION {[1..n -> NextHops] : n \in 1..MaxPaths} :
     \A i, j \in DOMAIN s : i < j => NhLess(s[i], s[j])}

\* key of ecmpHosts_: (vrf, fwd)
EcmpKeys == Vrfs \X RouteForwardNexthops

\* ------------------------------------------------------------------- state
VARIABLES
  hosts,           \* hosts_: key -> BcmHost with its reference count
  ecmpHosts,       \* ecmpHosts_: key -> BcmEcmpHost with its count
  egressMap,       \* egressMap_: id -> egress object with its count
  port2EgressIds,  \* port2EgressIds_: port -> set of egress ids
  hwHosts,         \* the L3 host entries the hardware holds
  warmBootCache,   \* the keys with a discovered entry not yet claimed
  fatal,           \* a CHECK / LOG(FATAL) aborted the process
  held,            \* references callers hold on host keys
  heldEcmp,        \* references callers hold on ECMP host keys
  ops,             \* the public operations the run may still call
  pc,              \* "idle", or the BcmEcmpHost operation under way
  ctx,             \* the locals of that operation
  last             \* the public operation that completed last

vars == <<hosts, ecmpHosts, egressMap, port2EgressIds, hwHosts, warmBootCache, fatal,
          held, heldEcmp, ops, pc, ctx, last>>

\* An absent map slot (reference count 0), and the fields of a BcmHost:
\* obj tells whether the slot's unique_ptr holds an object (0 = nullptr),
\* adds counts the opennsl_l3_host_add calls that succeeded for it.
NoHost == [ref |-> 0, obj |-> 0, egressId |-> INVALID, port |-> 0,
           added |-> FALSE, adds |-> 0]
NoEcmpHost == [ref |-> 0, obj |-> 0, egressId |-> INVALID,
               ecmpEgressId |-> INVALID]
\* BcmEgress (kind "simple") and BcmEcmpEgress (kind "group", with its
\* paths and which of them are reachable).  What a BcmEgress was last
\* programmed to lives in the hardware and is never read back by the host
\* table: the programming calls are recorded as the events of an operation.
NoEgress == [ref |-> 0, kind |-> "none", paths |-> <<>>, reach |-> <<>>]

\* The part of the table the operations of one BcmHost work on.
Table == [hosts |-> hosts, egressMap |-> egressMap,
          port2EgressIds |-> port2EgressIds, hwHosts |-> hwHosts,
          warmBootCache |-> warmBootCache,
          fatal |-> fatal]

SetTable(t) ==
  /\ hosts' = t.hosts
  /\ egressMap' = t.egressMap
  /\ port2EgressIds' = t.port2EgressIds
  /\ hwHosts' = t.hwHosts
  /\ warmBootCache' = t.warmBootCache
  /\ fatal' = t.fatal

\* CHECK(...) failed or LOG(FATAL): the process aborts
Abort(t) == [t EXCEPT !.fatal = TRUE]

NoCtx == [key |-> <<>>, rest |-> <<>>, prog |-> <<>>, paths |-> <<>>,
          steps |-> <<>>, done |-> <<>>, why |-> "none", pre |-> <<>>]
NoLast == [op |-> "none", res |-> "none", ret |-> 0, why |-> "none",
           n |-> 0, arg |-> <<>>, wb |-> <<>>]
\* the record of a completed public operation: its name, its outcome
\* ("ok", "fail" for an exception, "fatal"), the object it returned
\* (0 = nullptr), what failed or "absent" for a key that was not there,
\* the number of members an ECMP constructor had acquired, and the
\* arguments a claim refers to
Completed(op, res, ret, why) ==
  [op |-> op, res |-> res, ret |-> ret, why |-> why, n |-> 0,
   arg |-> <<>>, wb |-> <<>>]

\* the ids the hardware can assign to a new egress object
FreeEgressIds(t) == {e \in EgressIds : t.egressMap[e].ref = 0}

\* ------------------------------------------------- the egress registry

\* BcmHostTable::incEgressReference
incEgressReference(t, egressId) ==
  IF egressId \notin EgressIds \/ t.egressMap[egressId].ref = 0
  THEN Abort(t)
  ELSE [t EXCEPT !.egressMap[egressId].ref = @ + 1]

\* derefEgress that erases the object whatever its count is
derefEgress_EraseAlways(t, egressId) ==
  IF egressId \notin EgressIds \/ t.egressMap[egressId].ref = 0
  THEN Abort(t)
  ELSE [t EXCEPT !.egressMap[egressId] = NoEgress]

\* BcmHostTable::derefEgress
derefEgress(t, egressId) ==
  IF egressId \notin EgressIds \/ t.egressMap[egressId].ref = 0
  THEN Abort(t)
  ELSE IF t.egressMap[egressId].ref = 1
       THEN [t EXCEPT !.egressMap[egressId] = NoEgress]
       ELSE [t EXCEPT !.egressMap[egressId].ref = @ - 1]

\* insertBcmEgress that puts the new object in the place of one that is
\* registered under the id already
insertBcmEgress_Overwrites(t, id, egress) ==
  [t EXCEPT !.egressMap[id] = [egress EXCEPT !.ref = 1]]

\* BcmHostTable::insertBcmEgress
insertBcmEgress(t, id, egress) ==
  IF t.egressMap[id].ref > 0
  THEN Abort(t)
  ELSE [t EXCEPT !.egressMap[id] = [egress EXCEPT !.ref = 1]]

\* updatePortEgressMapping that does not test its ports for 0
updatePortEgressMapping_NoZeroTest(t, egressId, oldPort, newPort) ==
  [t EXCEPT !.port2EgressIds =
     [p \in DOMAIN @ |->
        IF p = newPort THEN @[p] \cup {egressId}
        ELSE IF p = oldPort THEN @[p] \ {egressId}
        ELSE @[p]]]

\* BcmHostTable::updatePortEgressMapping
updatePortEgressMapping(t, egressId, oldPort, newPort) ==
  LET erased == IF oldPort # 0
                THEN [t EXCEPT !.port2EgressIds[oldPort] = @ \ {egressId}]
                ELSE t
  IN IF newPort # 0
     THEN [erased EXCEPT !.port2EgressIds[newPort] = @ \cup {egressId}]
     ELSE erased

\* ------------------------------------------------------------- BcmHost

\* BcmHost::BcmHost: the new object takes a reference on the egress id it
\* is given
BcmHostCtor(t, k, referenced_egress) ==
  LET h == [NoHost EXCEPT !.ref = 1, !.obj = 1,
                          !.egressId = referenced_egress]
      t1 == [t EXCEPT !.hosts[k] = h]
  IN IF referenced_egress # INVALID
     THEN incEgressReference(t1, referenced_egress)
     ELSE t1

\* IPAddress::isV4: the odd addresses are IPv4, the even ones IPv6
isV4(addr) == addr % 2 = 1

\* BcmHost::initHostCommon and the flag addBcmHost adds: the
\* opennsl_l3_host_t of the host h stored under k
initHostCommon(k, h, isMultipath) ==
  [v6 |-> ~isV4(k[2]), multipath |-> isMultipath, vrf |-> k[1],
   intf |-> h.egressId]

\* the lambda of addBcmHost that compares the new host with the one the
\* warm boot cache holds
equivalent(newHost, existingHost) ==
  LET flagsEqual == /\ existingHost.v6 = newHost.v6
                    /\ existingHost.multipath = newHost.multipath
  IN /\ flagsEqual
     /\ existingHost.vrf = newHost.vrf
     /\ existingHost.intf = newHost.intf

\* the opennsl_l3_host_t entries the warm boot cache may have discovered
\* in the hardware
DiscoveredHosts ==
  [v6 : BOOLEAN, multipath : BOOLEAN, vrf : Vrfs \cup {Cardinality(Vrfs)},
   intf : EgressIds]

\* addBcmHost that sets added_ before it calls opennsl_l3_host_add
addBcmHost_FlagBeforeAdd(t, k, isMultipath, hw) ==
  LET h == t.hosts[k]
      host == initHostCommon(k, h, isMultipath)
  IN IF h.added
     THEN [t |-> t, ok |-> TRUE, wb |-> <<>>]
     ELSE IF k \in t.warmBootCache
     THEN IF ~equivalent(host, hw.found)
          THEN [t |-> Abort(t), ok |-> FALSE, wb |-> <<host, hw.found>>]
          ELSE [t |-> [t EXCEPT !.warmBootCache = @ \ {k},
                                !.hosts[k].added = TRUE],
                ok |-> TRUE, wb |-> <<host, hw.found>>]
     ELSE IF ~hw.addOk
          THEN [t |-> [t EXCEPT !.hosts[k].added = TRUE],
                ok |-> FALSE, wb |-> <<>>]
          ELSE [t |-> [t EXCEPT
                         !.hwHosts = @ \cup {k},
                         !.hosts[k].added = TRUE,
                         !.hosts[k].adds = @ + 1],
                ok |-> TRUE, wb |-> <<>>]

\* addBcmHost that acknowledges a matching discovered entry and then
\* adds the host to the hardware all the same
addBcmHost_AddsAfterMatch(t, k, isMultipath, hw) ==
  LET h == t.hosts[k]
      host == initHostCommon(k, h, isMultipath)
  IN IF h.added
     THEN [t |-> t, ok |-> TRUE, wb |-> <<>>]
     ELSE IF k \in t.warmBootCache /\ ~equivalent(host, hw.found)
     THEN [t |-> Abort(t), ok |-> FALSE, wb |-> <<host, hw.found>>]
     ELSE IF ~hw.addOk
     THEN [t |-> t, ok |-> FALSE,
           wb |-> IF k \in t.warmBootCache THEN <<host, hw.found>>
                  ELSE <<>>]
     ELSE [t |-> [t EXCEPT
                    !.warmBootCache = @ \ {k},
                    !.hwHosts = @ \cup {k},
                    !.hosts[k].added = TRUE,
                    !.hosts[k].adds = @ + 1],
           ok |-> TRUE,
           wb |-> IF k \in t.warmBootCache THEN <<host, hw.found>>
                  ELSE <<>>]

\* addBcmHost that logs a discovered entry that differs and goes on
addBcmHost_MismatchNotFatal(t, k, isMultipath, hw) ==
  LET h == t.hosts[k]
      host == initHostCommon(k, h, isMultipath)
  IN IF h.added
     THEN [t |-> t, ok |-> TRUE, wb |-> <<>>]
     ELSE IF k \in t.warmBootCache
     THEN [t |-> [t EXCEPT !.warmBootCache = @ \ {k},
                           !.hosts[k].added = TRUE],
           ok |-> TRUE, wb |-> <<host, hw.found>>]
     ELSE IF ~hw.addOk
          THEN [t |-> t, ok |-> FALSE, wb |-> <<>>]
          ELSE [t |-> [t EXCEPT
                         !.hwHosts = @ \cup {k},
                         !.hosts[k].added = TRUE,
                         !.hosts[k].adds = @ + 1],
                ok |-> TRUE, wb |-> <<>>]

\* BcmHost::addBcmHost.  hw tells what the collaborators do: found is the
\* entry findHost returns when the warm boot cache holds one for the key
\* (its fields are read here and nowhere else, the entry being claimed or
\* the process aborted right after), addOk is the outcome of
\* opennsl_l3_host_add.  Returns the table, whether the call returned
\* normally, and <<new host, found entry>> when the cache held an entry.
addBcmHost(t, k, isMultipath, hw) ==
  LET h == t.hosts[k]
      host == initHostCommon(k, h, isMultipath)
  IN IF h.added
     THEN [t |-> t, ok |-> TRUE, wb |-> <<>>]
     ELSE IF k \in t.warmBootCache
     THEN IF ~equivalent(host, hw.found)
          THEN [t |-> Abort(t), ok |-> FALSE, wb |-> <<host, hw.found>>]
          ELSE [t |-> [t EXCEPT !.warmBootCache = @ \ {k},
                                !.hosts[k].added = TRUE],
                ok |-> TRUE, wb |-> <<host, hw.found>>]
     ELSE IF ~hw.addOk
          THEN [t |-> t, ok |-> FALSE, wb |-> <<>>]
          ELSE [t |-> [t EXCEPT
                         !.hwHosts = @ \cup {k},
                         !.hosts[k].added = TRUE,
                         !.hosts[k].adds = @ + 1],
                ok |-> TRUE, wb |-> <<>>]

\* the id the hardware gives a new egress object: the lowest free one
NewEgressIds(t) ==
  IF FreeEgressIds(t) = {}
  THEN {0}
  ELSE {CHOOSE e \in FreeEgressIds(t) : \A f \in FreeEgressIds(t) : e <= f}

\* What findHost returns for key k: an entry the cache holds for it
FoundHosts(t, k) ==
  IF k \in t.warmBootCache THEN DiscoveredHosts ELSE {<<>>}

\* What the collaborators do during one program call on the host under
\* k: the id the hardware assigns to a new egress object (0: none left),
\* whether programming the egress object succeeds, what findHost returns,
\* whether opennsl_l3_host_add succeeds.
ProgramOutcomes(t, k) ==
  {[newId |-> 0, egressOk |-> FALSE, addOk |-> TRUE, found |-> <<>>]} \cup
  {[newId |-> e, egressOk |-> TRUE, addOk |-> b, found |-> f] :
     e \in NewEgressIds(t), b \in BOOLEAN, f \in FoundHosts(t, k)}

\* program that issues opennsl_l3_host_add on every call, whether or not
\* the host was added before
program_ReAdds(t, k, intf, mode, port, hw) ==
  LET h == t.hosts[k]
      created == h.egressId = INVALID
      id == IF created THEN hw.newId ELSE h.egressId
      egress == IF created
                THEN [NoEgress EXCEPT !.kind = "simple"]
                ELSE t.egressMap[id]
  IN IF ~created /\ (egress.ref = 0 \/ egress.kind # "simple")
     THEN [t |-> Abort(t), ok |-> FALSE, egress |-> <<>>, wb |-> <<>>]
     ELSE IF ~hw.egressOk \/ id \notin EgressIds
     THEN [t |-> t, ok |-> FALSE, egress |-> <<>>, wb |-> <<>>]
     ELSE
       LET t1 == IF created
                 THEN insertBcmEgress([t EXCEPT !.hosts[k].egressId = id],
                                      id, egress)
                 ELSE t
       IN IF ~hw.addOk
          THEN [t |-> t1, ok |-> FALSE, egress |-> <<id, mode, intf>>,
                wb |-> <<>>]
          ELSE [t |-> [updatePortEgressMapping(
                          [t1 EXCEPT !.hwHosts = @ \cup {k},
                                     !.hosts[k].added = TRUE,
                                     !.hosts[k].adds = @ + 1],
                          id, h.port, port)
                         EXCEPT !.hosts[k].port = port],
                ok |-> TRUE, egress |-> <<id, mode, intf>>, wb |-> <<>>]

\* BcmHost::program; mode is "mac" (a MAC was given), "cpu" or "drop".
\* Returns the table, whether the call returned normally, the egress
\* programming call issued (<<id, mode, intf>>, or <<>> for none), and
\* what addBcmHost found in the warm boot cache.
program(t, k, intf, mode, port, hw) ==
  LET h == t.hosts[k]
      created == h.egressId = INVALID
      id == IF created THEN hw.newId ELSE h.egressId
      egress == IF created
                THEN [NoEgress EXCEPT !.kind = "simple"]
                ELSE t.egressMap[id]
  IN IF ~created /\ (egress.ref = 0 \/ egress.kind # "simple")
     THEN [t |-> Abort(t), ok |-> FALSE, egress |-> <<>>, wb |-> <<>>]
     ELSE IF ~hw.egressOk \/ id \notin EgressIds
     THEN [t |-> t, ok |-> FALSE, egress |-> <<>>, wb |-> <<>>]
     ELSE
       LET t1 == IF created
                 THEN insertBcmEgress([t EXCEPT !.hosts[k].egressId = id],
                                      id, egress)
                 ELSE t
           a == IF ~h.added
                THEN addBcmHost(t1, k, FALSE, hw)
                ELSE [t |-> t1, ok |-> TRUE, wb |-> <<>>]
       IN IF ~a.ok
          THEN [t |-> a.t, ok |-> FALSE, egress |-> <<id, mode, intf>>,
                wb |-> a.wb]
          ELSE [t |-> [updatePortEgressMapping(a.t, id, h.port, port)
                         EXCEPT !.hosts[k].port = port],
                ok |-> TRUE, egress |-> <<id, mode, intf>>, wb |-> a.wb]

\* BcmHost::~BcmHost of the object h that was stored under k; delOk is the
\* outcome of opennsl_l3_host_delete
BcmHostDtor(t, k, h, delOk) ==
  IF ~h.added
  THEN t
  ELSE IF ~delOk
       THEN Abort(t)
       ELSE derefEgress([t EXCEPT !.hwHosts = @ \ {k}],
                        h.egressId)

\* ------------------------------------------- the host registry (hosts_)

\* a dereference that takes a key that is not in the registry for fatal
derefBcmHost_AbsentFatal(t, k, delOk) ==
  LET h == t.hosts[k]
  IN IF h.ref = 0
     THEN [t |-> Abort(t), ret |-> 0]
     ELSE IF h.ref = 1
     THEN [t |-> BcmHostDtor([t EXCEPT !.hosts[k] = NoHost], k, h, delOk),
           ret |-> 0]
     ELSE [t |-> [t EXCEPT !.hosts[k].ref = @ - 1], ret |-> h.obj]

\* incRefOrCreateBcmHost without its SCOPE_FAIL: a failed construction
\* leaves the placeholder in the map
incRefOrCreateBcmHost_KeepsPlaceholder(t, k, egressId, allocOk) ==
  IF t.hosts[k].ref > 0
  THEN [t |-> [t EXCEPT !.hosts[k].ref = @ + 1], ok |-> TRUE,
        ret |-> t.hosts[k].obj]
  ELSE IF ~allocOk
       THEN [t |-> [t EXCEPT !.hosts[k] = [NoHost EXCEPT !.ref = 1]],
             ok |-> FALSE, ret |-> 0]
       ELSE LET t1 == BcmHostCtor(t, k, egressId)
            IN [t |-> t1, ok |-> TRUE, ret |-> t1.hosts[k].obj]

\* BcmHostTable::incRefOrCreateBcmHost for hosts_; allocOk is whether
\* constructing the new object succeeds.  Returns the table, whether the
\* call returned normally, and the object returned.
incRefOrCreateBcmHost(t, k, egressId, allocOk) ==
  IF t.hosts[k].ref > 0
  THEN [t |-> [t EXCEPT !.hosts[k].ref = @ + 1], ok |-> TRUE,
        ret |-> t.hosts[k].obj]
  ELSE IF ~allocOk
       THEN [t |-> t, ok |-> FALSE, ret |-> 0]
       ELSE LET t1 == BcmHostCtor(t, k, egressId)
            IN [t |-> t1, ok |-> TRUE, ret |-> t1.hosts[k].obj]

\* derefBcmHost that erases the entry whatever its count is
derefBcmHost_EraseAlways(t, k, delOk) ==
  LET h == t.hosts[k]
  IN IF h.ref = 0
     THEN [t |-> t, ret |-> 0]
     ELSE [t |-> BcmHostDtor([t EXCEPT !.hosts[k] = NoHost], k, h, delOk),
           ret |-> 0]

\* BcmHostTable::derefBcmHost for hosts_.  Returns the table and the object
\* returned (0 is nullptr).
derefBcmHost(t, k, delOk) ==
  LET h == t.hosts[k]
  IN IF h.ref = 0
     THEN [t |-> t, ret |-> 0]
     ELSE IF h.ref = 1
     THEN [t |-> BcmHostDtor([t EXCEPT !.hosts[k] = NoHost], k, h, delOk),
           ret |-> 0]
     ELSE [t |-> [t EXCEPT !.hosts[k].ref = @ - 1], ret |-> h.obj]

\* BcmHostTable::getBcmHostIf on either map: the object stored under k,
\* 0 (nullptr) when the key is not in the map
getBcmHostIf(map, k) ==
  IF map[k].ref = 0 THEN 0 ELSE map[k].obj

\* a must-exist lookup that hands the nullptr on to its caller
getBcmHost_NoThrow(map, k) ==
  [ok |-> TRUE, ret |-> getBcmHostIf(map, k)]

\* BcmHostTable::getBcmHost and getBcmEcmpHost: the object, or an
\* FbossError (ok is FALSE) when there is none
getBcmHost(map, k) ==
  LET host == getBcmHostIf(map, k)
  IN IF host = 0
     THEN [ok |-> FALSE, ret |-> 0]
     ELSE [ok |-> TRUE, ret |-> host]

\* --------------------------------------------------------- BcmEcmpHost

\* BcmHost::isProgrammed
isProgrammed(h) == h.added

\* the key of hosts_ a next hop of an ECMP host in vrf resolves to
MemberKey(vrf, nhop) == <<vrf, nhop[2]>>

\* getBcmIntf(intf)->getBcmIfId(): the hardware id of the interface with
\* id intf; the hardware ids lie above the interface ids
getBcmIfId(intf) == intf + NumIntfs

\* a loop body that programs every member to the CPU, programmed or not
EcmpMember_ProgramsAlways(t, vrf, nhop, o) ==
  LET k == MemberKey(vrf, nhop)
      a == incRefOrCreateBcmHost(t, k, INVALID, o.allocOk)
  IN IF ~a.ok
     THEN [t |-> a.t, ok |-> FALSE, inProg |-> FALSE, egress |-> <<>>,
           why |-> "alloc"]
     ELSE IF ~o.intfOk
     THEN [t |-> a.t, ok |-> FALSE, inProg |-> TRUE, egress |-> <<>>,
           why |-> "intf"]
     ELSE LET p == program(a.t, k, getBcmIfId(nhop[1]), "cpu", 0, o.hw)
          IN [t |-> p.t, ok |-> p.ok, inProg |-> TRUE, egress |-> p.egress,
              why |-> IF p.ok THEN "none"
                      ELSE IF p.egress = <<>> THEN "egress" ELSE "add"]

\* The loop body of BcmEcmpHost::BcmEcmpHost for one next hop.  o tells
\* what the collaborators do: allocOk (the member can be constructed),
\* intfOk (getBcmIntf finds the interface), hw (see ProgramOutcomes).
\* Returns the table, whether the body ended normally, whether the next
\* hop was put into prog, the egress programming call issued, and what
\* failed.
EcmpMember(t, vrf, nhop, o) ==
  LET k == MemberKey(vrf, nhop)
      a == incRefOrCreateBcmHost(t, k, INVALID, o.allocOk)
  IN IF ~a.ok
     THEN [t |-> a.t, ok |-> FALSE, inProg |-> FALSE, egress |-> <<>>,
           why |-> "alloc"]
     ELSE IF isProgrammed(a.t.hosts[k])
     THEN [t |-> a.t, ok |-> TRUE, inProg |-> TRUE, egress |-> <<>>,
           why |-> "none"]
     ELSE IF ~o.intfOk
     THEN [t |-> a.t, ok |-> FALSE, inProg |-> TRUE, egress |-> <<>>,
           why |-> "intf"]
     ELSE LET p == program(a.t, k, getBcmIfId(nhop[1]), "cpu", 0, o.hw)
          IN [t |-> p.t, ok |-> p.ok, inProg |-> TRUE, egress |-> p.egress,
              why |-> IF p.ok THEN "none"
                      ELSE IF p.egress = <<>> THEN "egress" ELSE "add"]

\* a constructor that makes a group egress object for a single path too
EcmpFinish_GroupAlways(t, paths, groupOk) ==
  LET id == CHOOSE e \in NewEgressIds(t) : TRUE
  IN IF ~groupOk \/ id \notin EgressIds
     THEN [t |-> t, ok |-> FALSE, host |-> NoEcmpHost]
     ELSE [t |-> insertBcmEgress(t, id,
                   [NoEgress EXCEPT !.kind = "group", !.paths = paths,
                      !.reach = [i \in DOMAIN paths |-> TRUE]]),
           ok |-> TRUE,
           host |-> [NoEcmpHost EXCEPT !.ref = 1, !.obj = 1,
                                       !.egressId = id,
                                       !.ecmpEgressId = id]]

\* The end of BcmEcmpHost::BcmEcmpHost, after the loop: the fields of the
\* new object and the table with the group egress object registered.
\* groupOk is the outcome of BcmEcmpEgress::program.
EcmpFinish(t, paths, groupOk) ==
  IF Len(paths) = 1
  THEN [t |-> t, ok |-> TRUE,
        host |-> [NoEcmpHost EXCEPT !.ref = 1, !.obj = 1,
                                    !.egressId = paths[1]]]
  ELSE LET id == CHOOSE e \in NewEgressIds(t) : TRUE
       IN IF ~groupOk \/ id \notin EgressIds
          THEN [t |-> t, ok |-> FALSE, host |-> NoEcmpHost]
          ELSE [t |-> insertBcmEgress(t, id,
                        [NoEgress EXCEPT !.kind = "group", !.paths = paths,
                           !.reach = [i \in DOMAIN paths |-> TRUE]]),
                ok |-> TRUE,
                host |-> [NoEcmpHost EXCEPT !.ref = 1, !.obj = 1,
                                            !.egressId = id,
                                            !.ecmpEgressId = id]]

\* a destructor that releases the members before the group egress object
EcmpDtorSteps_MembersFirst(h, key) ==
  [i \in DOMAIN key[2] |-> <<"host", MemberKey(key[1], key[2][i])>>]
  \o (IF h.ecmpEgressId # INVALID THEN <<<<"egress", h.ecmpEgressId>>>>
      ELSE <<>>)

\* BcmEcmpHost::~BcmEcmpHost as the releases it makes, in order: the group
\* egress object, then every member
EcmpDtorSteps(h, key) ==
  (IF h.ecmpEgressId # INVALID THEN <<<<"egress", h.ecmpEgressId>>>>
   ELSE <<>>)
  \o [i \in DOMAIN key[2] |-> <<"host", MemberKey(key[1], key[2][i])>>]

\* a SCOPE_FAIL that forgets the next hop acquired first
EcmpScopeFail_SkipFirst(vrf, prog) ==
  [i \in 1..(Len(prog) - 1) |-> <<"host", MemberKey(vrf, prog[i + 1])>>]

\* the SCOPE_FAIL of BcmEcmpHost::BcmEcmpHost as the releases it makes
EcmpScopeFail(vrf, prog) ==
  [i \in DOMAIN prog |-> <<"host", MemberKey(vrf, prog[i])>>]

\* one release of the two lists above
Release(t, step, delOk) ==
  IF step[1] = "egress"
  THEN derefEgress(t, step[2])
  ELSE derefBcmHost(t, step[2], delOk).t

\* --------------------------------------------------- link state changes

\* the calls of BcmHostTable::linkStateChanged on one group: every
\* affected path is marked
SetPaths(g, affectedPaths, up) ==
  [g EXCEPT !.reach = [i \in DOMAIN g.paths |->
                         IF g.paths[i] \in affectedPaths THEN up
                         ELSE g.reach[i]]]

\* linkStateChanged that, on a link going down, rebuilds every group
\* without its affected paths
linkStateChanged_Rebuilds(t, ecmp, port, up) ==
  LET affectedPaths == t.port2EgressIds[port]
      groups == {ecmp[k].ecmpEgressId :
                   k \in {x \in DOMAIN ecmp : ecmp[x].ref > 0
                                        /\ ecmp[x].ecmpEgressId # INVALID}}
  IN IF affectedPaths = {}
     THEN t
     ELSE IF \E g \in groups : t.egressMap[g].ref = 0
     THEN Abort(t)
     ELSE [t EXCEPT !.egressMap =
             [e \in DOMAIN @ |->
                IF e \in groups
                THEN IF up THEN SetPaths(@[e], affectedPaths, up)
                     ELSE [@[e] EXCEPT
                             !.paths = SelectSeq(@, LAMBDA x :
                                                   x \notin affectedPaths),
                             !.reach = [i \in 1..Len(SelectSeq(
                                          t.egressMap[e].paths,
                                          LAMBDA x : x \notin affectedPaths))
                                        |-> TRUE]]
                ELSE @[e]]]

\* linkStateChanged that marks every path of a group that has an affected
\* path
linkStateChanged_AllPaths(t, ecmp, port, up) ==
  LET affectedPaths == t.port2EgressIds[port]
      groups == {ecmp[k].ecmpEgressId :
                   k \in {x \in DOMAIN ecmp : ecmp[x].ref > 0
                                        /\ ecmp[x].ecmpEgressId # INVALID}}
  IN IF affectedPaths = {}
     THEN t
     ELSE IF \E g \in groups : t.egressMap[g].ref = 0
     THEN Abort(t)
     ELSE [t EXCEPT !.egressMap =
             [e \in DOMAIN @ |->
                IF e \in groups
                     /\ \E i \in DOMAIN @[e].paths :
                          @[e].paths[i] \in affectedPaths
                THEN [@[e] EXCEPT !.reach = [i \in DOMAIN @ |-> up]]
                ELSE @[e]]]

\* BcmHostTable::linkStateChanged, given the ECMP host registry
linkStateChanged(t, ecmp, port, up) ==
  LET affectedPaths == t.port2EgressIds[port]
      groups == {ecmp[k].ecmpEgressId :
                   k \in {x \in DOMAIN ecmp : ecmp[x].ref > 0
                                        /\ ecmp[x].ecmpEgressId # INVALID}}
  IN IF affectedPaths = {}
     THEN t
     ELSE IF \E g \in groups : t.egressMap[g].ref = 0
     THEN Abort(t)
     ELSE [t EXCEPT !.egressMap =
             [e \in DOMAIN @ |->
                IF e \in groups THEN SetPaths(@[e], affectedPaths, up)
                ELSE @[e]]]

\* ---------------------------------------------------------------- Init

Init ==
  /\ hosts = [k \in HostKeys |-> NoHost]
  /\ ecmpHosts = [k \in EcmpKeys |-> NoEcmpHost]
  /\ egressMap = [e \in EgressIds |-> NoEgress]
  /\ port2EgressIds = [p \in Ports |-> {}]
  /\ warmBootCache \in SUBSET {k \in HostKeys : k[2] <= NumDiscovered}
  /\ hwHosts = warmBootCache
  /\ fatal = FALSE
  /\ held = [k \in HostKeys |-> 0]
  /\ heldEcmp = [k \in EcmpKeys |-> 0]
  /\ ops = MaxOps
  /\ pc = "idle"
  /\ ctx = NoCtx
  /\ last = NoLast

\* a caller may call a public operation
Idle == pc = "idle" /\ ~fatal /\ ops > 0

Result(aborted, ok) ==
  IF aborted THEN "fatal" ELSE IF ok THEN "ok" ELSE "fail"

\* ------------------------------------------- operations on host entries

\* a caller acquires a host entry: incRefOrCreateBcmHost(vrf, addr)
AcquireHost(k) ==
  /\ Idle
  /\ \E allocOk \in BOOLEAN :
       LET r == incRefOrCreateBcmHost(Table, k, INVALID, allocOk)
       IN /\ SetTable(r.t)
          /\ held' = IF r.ok THEN [held EXCEPT ![k] = @ + 1] ELSE held
          /\ last' = Completed("incRefOrCreateBcmHost", Result(r.t.fatal, r.ok),
                               r.ret, IF r.ok THEN "none" ELSE "alloc")
  /\ UNCHANGED <<ecmpHosts, heldEcmp, pc, ctx>>
  /\ ops' = ops - 1

\* a caller acquires a host entry that points to an existing egress
\* object: incRefOrCreateBcmHost(vrf, addr, egressId)
AcquireHostWithEgress(k, egressId) ==
  /\ Idle
  /\ \E allocOk \in BOOLEAN :
       LET r == incRefOrCreateBcmHost(Table, k, egressId, allocOk)
       IN /\ SetTable(r.t)
          /\ held' = IF r.ok /\ ~r.t.fatal
                     THEN [held EXCEPT ![k] = @ + 1] ELSE held
          /\ last' = Completed("incRefOrCreateBcmHostEgress",
                               Result(r.t.fatal, r.ok), r.ret,
                               IF r.ok THEN "none" ELSE "alloc")
  /\ UNCHANGED <<ecmpHosts, heldEcmp, pc, ctx>>
  /\ ops' = ops - 1

\* a caller programs a live host entry: program(intf, mac, port),
\* programToCPU(intf) or programToDrop(intf)
ProgramHost(k, intf, mode, port) ==
  /\ Idle
  /\ hosts[k].ref > 0
  /\ mode = "mac" \/ port = 0
  /\ \E hw \in ProgramOutcomes(Table, k) :
       LET r == program(Table, k, intf, mode, port, hw)
       IN /\ SetTable(r.t)
          /\ last' = [Completed("program", Result(r.t.fatal, r.ok), 0,
                                IF r.ok THEN "none"
                                ELSE IF r.egress = <<>> THEN "egress"
                                ELSE "add")
                        EXCEPT !.arg = <<k, hosts[k].port, port,
                                         hosts[k].added>>,
                               !.wb = r.wb]
  /\ UNCHANGED <<ecmpHosts, held, heldEcmp, pc, ctx>>
  /\ ops' = ops - 1

\* a caller adds a host entry that was created over an existing egress
\* object to the hardware: addBcmHost(isMultipath)
AddHost(k, isMultipath) ==
  /\ Idle
  /\ hosts[k].ref > 0
  /\ hosts[k].egressId # INVALID
  /\ \E addOk \in BOOLEAN, found \in FoundHosts(Table, k) :
       LET r == addBcmHost(Table, k, isMultipath,
                           [addOk |-> addOk, found |-> found])
       IN /\ SetTable(r.t)
          /\ last' = [Completed("addBcmHost", Result(r.t.fatal, r.ok), 0,
                                IF r.ok THEN "none" ELSE "add")
                        EXCEPT !.arg = <<k, hosts[k].port, hosts[k].port,
                                         hosts[k].added>>,
                               !.wb = r.wb]
  /\ UNCHANGED <<ecmpHosts, held, heldEcmp, pc, ctx>>
  /\ ops' = ops - 1

\* a caller releases a reference it holds, or dereferences a key that is
\* not in the registry: derefBcmHost(vrf, addr)
DerefHost(k) ==
  /\ Idle
  /\ held[k] > 0 \/ hosts[k].ref = 0
  /\ \E delOk \in BOOLEAN :
       LET r == derefBcmHost(Table, k, delOk)
       IN /\ SetTable(r.t)
          /\ last' = Completed("derefBcmHost", Result(r.t.fatal, TRUE), r.ret,
                               IF hosts[k].ref = 0 THEN "absent"
                               ELSE "none")
  /\ held' = [held EXCEPT ![k] = IF @ > 0 THEN @ - 1 ELSE @]
  /\ UNCHANGED <<ecmpHosts, heldEcmp, pc, ctx>>
  /\ ops' = ops - 1

\* a caller looks a host entry up: getBcmHostIf(vrf, addr)
GetHostIf(k) ==
  /\ Idle
  /\ last' = Completed("getBcmHostIf", "ok", getBcmHostIf(hosts, k), "none")
  /\ ops' = ops - 1
  /\ UNCHANGED <<hosts, ecmpHosts, egressMap, port2EgressIds, hwHosts,
                 warmBootCache, fatal, held, heldEcmp, pc, ctx>>

\* a caller looks up a host entry that must exist: getBcmHost(vrf, addr)
GetHost(k) ==
  /\ Idle
  /\ LET r == getBcmHost(hosts, k)
     IN last' = Completed("getBcmHost", Result(FALSE, r.ok), r.ret,
                          IF r.ok THEN "none" ELSE "notfound")
  /\ ops' = ops - 1
  /\ UNCHANGED <<hosts, ecmpHosts, egressMap, port2EgressIds, hwHosts,
                 warmBootCache, fatal, held, heldEcmp, pc, ctx>>

\* ---------------------------------------------- operations on ECMP hosts

\* the contents of the host table: the three registries and the port index
Snapshot == [hosts |-> hosts, ecmpHosts |-> ecmpHosts,
             egressMap |-> egressMap, port2EgressIds |-> port2EgressIds]

\* a caller looks an ECMP host up: getBcmEcmpHostIf(vrf, fwd)
GetEcmpHostIf(k) ==
  /\ Idle
  /\ last' = Completed("getBcmEcmpHostIf", "ok",
                       getBcmHostIf(ecmpHosts, k), "none")
  /\ ops' = ops - 1
  /\ UNCHANGED <<hosts, ecmpHosts, egressMap, port2EgressIds, hwHosts,
                 warmBootCache, fatal, held, heldEcmp, pc, ctx>>

\* a caller looks up an ECMP host that must exist:
\* getBcmEcmpHost(vrf, fwd)
GetEcmpHost(k) ==
  /\ Idle
  /\ LET r == getBcmHost(ecmpHosts, k)
     IN last' = Completed("getBcmEcmpHost", Result(FALSE, r.ok), r.ret,
                          IF r.ok THEN "none" ELSE "notfound")
  /\ ops' = ops - 1
  /\ UNCHANGED <<hosts, ecmpHosts, egressMap, port2EgressIds, hwHosts,
                 warmBootCache, fatal, held, heldEcmp, pc, ctx>>

\* incRefOrCreateBcmEcmpHost(vrf, fwd) on a key that is in the registry
AcquireEcmpShared(k) ==
  /\ Idle
  /\ ecmpHosts[k].ref > 0
  /\ ecmpHosts' = [ecmpHosts EXCEPT ![k].ref = @ + 1]
  /\ heldEcmp' = [heldEcmp EXCEPT ![k] = @ + 1]
  /\ last' = Completed("incRefOrCreateBcmEcmpHost", "ok", ecmpHosts[k].obj,
                       "none")
  /\ UNCHANGED <<hosts, egressMap, port2EgressIds, hwHosts, warmBootCache, fatal, held, pc, ctx>>
  /\ ops' = ops - 1

\* incRefOrCreateBcmEcmpHost(vrf, fwd) on a key that is not: the
\* placeholder is put into the map and the constructor starts
AcquireEcmpStart(k) ==
  /\ Idle
  /\ ecmpHosts[k].ref = 0
  /\ ecmpHosts' = [ecmpHosts EXCEPT ![k] = [NoEcmpHost EXCEPT !.ref = 1]]
  /\ pc' = "ctor"
  /\ ctx' = [NoCtx EXCEPT !.key = k, !.rest = k[2], !.pre = Snapshot]
  /\ last' = NoLast
  /\ UNCHANGED <<hosts, egressMap, port2EgressIds, hwHosts, warmBootCache, fatal, held,
                 heldEcmp>>
  /\ ops' = ops - 1

MemberOutcomes(t, k) ==
  [allocOk : BOOLEAN, intfOk : BOOLEAN, hw : ProgramOutcomes(t, k)]

\* one round of the loop of BcmEcmpHost::BcmEcmpHost; a failure starts the
\* SCOPE_FAIL
CtorStep ==
  /\ pc = "ctor" /\ ~fatal
  /\ ctx.rest # <<>>
  /\ \E o \in MemberOutcomes(Table, MemberKey(ctx.key[1], Head(ctx.rest))) :
       LET nhop == Head(ctx.rest)
           r == EcmpMember(Table, ctx.key[1], nhop, o)
           prog == IF r.inProg THEN Append(ctx.prog, nhop) ELSE ctx.prog
       IN /\ SetTable(r.t)
          /\ IF r.t.fatal
             THEN UNCHANGED <<pc, ctx>>
             ELSE IF r.ok
             THEN /\ pc' = "ctor"
                  /\ ctx' = [ctx EXCEPT
                       !.rest = Tail(@), !.prog = prog,
                       !.paths = Append(@,
                          r.t.hosts[MemberKey(ctx.key[1], nhop)].egressId),
                       !.done = Append(@, <<nhop, r.egress>>)]
             ELSE /\ pc' = "rollback"
                  /\ ctx' = [ctx EXCEPT
                       !.rest = <<>>, !.prog = prog, !.paths = <<>>,
                       !.done = <<>>, !.why = r.why,
                       !.steps = EcmpScopeFail(ctx.key[1], prog)]
  /\ UNCHANGED <<ecmpHosts, held, heldEcmp, ops, last>>

\* the end of BcmEcmpHost::BcmEcmpHost; the new object is bound to the
\* placeholder, or a failure to program the group starts the SCOPE_FAIL
CtorFinish ==
  /\ pc = "ctor" /\ ~fatal
  /\ ctx.rest = <<>>
  /\ \E groupOk \in BOOLEAN :
       LET r == EcmpFinish(Table, ctx.paths, groupOk)
       IN /\ SetTable(r.t)
          /\ IF r.ok
             THEN /\ ecmpHosts' = [ecmpHosts EXCEPT ![ctx.key] = r.host]
                  /\ heldEcmp' = [heldEcmp EXCEPT ![ctx.key] = @ + 1]
                  /\ pc' = "idle"
                  /\ ctx' = NoCtx
                  /\ last' = [Completed("incRefOrCreateBcmEcmpHost", "ok",
                                        1, "none")
                                EXCEPT !.n = Len(ctx.prog)]
             ELSE /\ pc' = "rollback"
                  /\ ctx' = [ctx EXCEPT
                       !.paths = <<>>, !.done = <<>>, !.why = "group",
                       !.steps = EcmpScopeFail(ctx.key[1], ctx.prog)]
                  /\ UNCHANGED <<ecmpHosts, heldEcmp, last>>
  /\ UNCHANGED <<held, ops>>

\* one release of the SCOPE_FAIL of BcmEcmpHost::BcmEcmpHost
RollbackStep ==
  /\ pc = "rollback" /\ ~fatal
  /\ ctx.steps # <<>>
  /\ \E delOk \in BOOLEAN :
       SetTable(Release(Table, Head(ctx.steps), delOk))
  /\ ctx' = [ctx EXCEPT !.steps = Tail(@)]
  /\ UNCHANGED <<ecmpHosts, held, heldEcmp, ops, pc, last>>

\* the SCOPE_FAIL of incRefOrCreateBcmHost erases the placeholder and the
\* exception reaches the caller
RollbackDone ==
  /\ pc = "rollback" /\ ~fatal
  /\ ctx.steps = <<>>
  /\ ecmpHosts' = [ecmpHosts EXCEPT ![ctx.key] = NoEcmpHost]
  /\ pc' = "idle"
  /\ ctx' = NoCtx
  /\ last' = [Completed("incRefOrCreateBcmEcmpHost", "fail", 0, ctx.why)
                EXCEPT !.n = Len(ctx.prog)]
  /\ UNCHANGED <<hosts, egressMap, port2EgressIds, hwHosts, warmBootCache, fatal, held,
                 heldEcmp, ops>>

\* derefBcmEcmpHost(vrf, fwd) that leaves the object alive, or on a key
\* that is not in the registry
DerefEcmp(k) ==
  /\ Idle
  /\ \/ heldEcmp[k] > 0 /\ ecmpHosts[k].ref > 1
     \/ ecmpHosts[k].ref = 0
  /\ ecmpHosts' = [ecmpHosts EXCEPT ![k].ref = IF @ > 0 THEN @ - 1 ELSE @]
  /\ heldEcmp' = [heldEcmp EXCEPT ![k] = IF @ > 0 THEN @ - 1 ELSE @]
  /\ last' = Completed("derefBcmEcmpHost", "ok",
                       IF ecmpHosts[k].ref = 0 THEN 0 ELSE ecmpHosts[k].obj,
                       IF ecmpHosts[k].ref = 0 THEN "absent" ELSE "none")
  /\ UNCHANGED <<hosts, egressMap, port2EgressIds, hwHosts, warmBootCache, fatal, held, pc, ctx>>
  /\ ops' = ops - 1

\* derefBcmEcmpHost(vrf, fwd) that releases the last reference: the entry
\* is erased and the destructor starts
DerefEcmpLast(k) ==
  /\ Idle
  /\ heldEcmp[k] > 0
  /\ ecmpHosts[k].ref = 1
  /\ ecmpHosts' = [ecmpHosts EXCEPT ![k] = NoEcmpHost]
  /\ heldEcmp' = [heldEcmp EXCEPT ![k] = @ - 1]
  /\ pc' = "dtor"
  /\ ctx' = [NoCtx EXCEPT !.key = k,
                          !.steps = EcmpDtorSteps(ecmpHosts[k], k)]
  /\ last' = NoLast
  /\ UNCHANGED <<hosts, egressMap, port2EgressIds, hwHosts, warmBootCache, fatal, held>>
  /\ ops' = ops - 1

\* one release of BcmEcmpHost::~BcmEcmpHost; after the last one
\* derefBcmEcmpHost returns nullptr
DtorStep ==
  /\ pc = "dtor" /\ ~fatal
  /\ \E delOk \in BOOLEAN :
       LET t == Release(Table, Head(ctx.steps), delOk)
       IN /\ SetTable(t)
          /\ IF Tail(ctx.steps) = <<>> /\ ~t.fatal
             THEN /\ pc' = "idle"
                  /\ ctx' = NoCtx
                  /\ last' = Completed("derefBcmEcmpHost", "ok", 0, "none")
             ELSE /\ pc' = "dtor"
                  /\ ctx' = [ctx EXCEPT !.steps = Tail(@),
                                        !.done = Append(@, Head(ctx.steps))]
                  /\ last' = last
  /\ UNCHANGED <<ecmpHosts, held, heldEcmp, ops>>

\* the port's link went up or down: linkStateChanged(port, up)
LinkStateChanged(port, up) ==
  /\ Idle
  /\ SetTable(linkStateChanged(Table, ecmpHosts, port, up))
  /\ last' = [Completed("linkStateChanged", Result(fatal', TRUE), 0,
                        "none")
                EXCEPT !.arg = <<port, up>>]
  /\ UNCHANGED <<ecmpHosts, held, heldEcmp, pc, ctx>>
  /\ ops' = ops - 1

\* ------------------------------- the egress registry called on its own

\* insertBcmEgress(egress) for a new egress object with the id given
InsertEgress(id, kind) ==
  /\ Idle
  /\ SetTable(insertBcmEgress(Table, id, [NoEgress EXCEPT !.kind = kind]))
  /\ last' = [Completed("insertBcmEgress", Result(fatal', TRUE), 0, "none")
                EXCEPT !.arg = <<id>>]
  /\ ops' = ops - 1
  /\ UNCHANGED <<ecmpHosts, held, heldEcmp, pc, ctx>>

\* incEgressReference(egressId)
IncEgress(id) ==
  /\ Idle
  /\ SetTable(incEgressReference(Table, id))
  /\ last' = [Completed("incEgressReference", Result(fatal', TRUE), 0,
                        "none")
                EXCEPT !.arg = <<id>>]
  /\ ops' = ops - 1
  /\ UNCHANGED <<ecmpHosts, held, heldEcmp, pc, ctx>>

\* derefEgress(egressId)
DerefEgress(id) ==
  /\ Idle
  /\ SetTable(derefEgress(Table, id))
  /\ last' = [Completed("derefEgress", Result(fatal', TRUE), 0, "none")
                EXCEPT !.arg = <<id>>]
  /\ ops' = ops - 1
  /\ UNCHANGED <<ecmpHosts, held, heldEcmp, pc, ctx>>

\* the three functions of the egress registry under any sequence of calls
NextEgress ==
  \/ \E id \in EgressIds, kind \in {"simple", "group"} : InsertEgress(id, kind)
  \/ \E id \in EgressIds : IncEgress(id)
  \/ \E id \in EgressIds : DerefEgress(id)

SpecEgress == Init /\ [][NextEgress]_vars

\* the table as BcmHostTable's constructor leaves it, for runs that call
\* only the operations on host entries
InitHosts ==
  /\ hosts = [k \in HostKeys |-> NoHost]
  /\ ecmpHosts = [k \in EcmpKeys |-> NoEcmpHost]
  /\ egressMap = [e \in EgressIds |-> NoEgress]
  /\ port2EgressIds = [p \in Ports |-> {}]
  /\ warmBootCache \in SUBSET {k \in HostKeys : k[2] <= NumDiscovered}
  /\ hwHosts = warmBootCache
  /\ fatal = FALSE
  /\ held = [k \in HostKeys |-> 0]
  /\ heldEcmp = [k \in EcmpKeys |-> 0]
  /\ ops = MaxHostOps
  /\ pc = "idle"
  /\ ctx = NoCtx
  /\ last = NoLast

\* the operations on host entries under any sequence of calls
NextHosts ==
  \/ \E k \in HostKeys : AcquireHost(k)
  \/ \E k \in HostKeys, e \in EgressIds : AcquireHostWithEgress(k, e)
  \/ \E k \in HostKeys, i \in Intfs, m \in {"mac", "cpu", "drop"},
        p \in Ports : ProgramHost(k, i, m, p)
  \/ \E k \in HostKeys, mp \in BOOLEAN : AddHost(k, mp)
  \/ \E k \in HostKeys : DerefHost(k)

SpecHosts == InitHosts /\ [][NextHosts]_vars

\* ------------------------------------------------------------------ Spec

Next ==
  \/ \E k \in HostKeys : AcquireHost(k)
  \/ \E k \in HostKeys, e \in EgressIds : AcquireHostWithEgress(k, e)
  \/ \E k \in HostKeys, i \in Intfs, m \in {"mac", "cpu", "drop"},
        p \in Ports : ProgramHost(k, i, m, p)
  \/ \E k \in HostKeys, mp \in BOOLEAN : AddHost(k, mp)
  \/ \E k \in HostKeys : DerefHost(k)
  \/ \E k \in HostKeys : GetHostIf(k)
  \/ \E k \in HostKeys : GetHost(k)
  \/ \E k \in EcmpKeys : GetEcmpHostIf(k)
  \/ \E k \in EcmpKeys : GetEcmpHost(k)
  \/ \E k \in EcmpKeys : AcquireEcmpShared(k)
  \/ \E k \in EcmpKeys : AcquireEcmpStart(k)
  \/ CtorStep
  \/ CtorFinish
  \/ RollbackStep
  \/ RollbackDone
  \/ \E k \in EcmpKeys : DerefEcmp(k)
  \/ \E k \in EcmpKeys : DerefEcmpLast(k)
  \/ DtorStep
  \/ \E p \in Ports, up \in BOOLEAN : LinkStateChanged(p, up)

Spec == Init /\ [][Next]_vars

\* ================================================================ claims

\* no operation is under way and the process has not aborted
Quiescent == pc = "idle" /\ ~fatal

\* the references the live ECMP hosts hold on host key k: one for every
\* next hop that resolves to k
MemberRefs(k) ==
  LET Count(key) ==
        Cardinality({i \in DOMAIN key[2] : MemberKey(key[1], key[2][i]) = k})
      RECURSIVE Sum(_)
      Sum(S) == IF S = {} THEN 0
                ELSE LET x == CHOOSE x \in S : TRUE
                     IN Count(x) + Sum(S \ {x})
  IN Sum({key \in EcmpKeys : ecmpHosts[key].ref > 0})

\* C1: between operations a key is in its registry exactly while some of
\* its acquisitions are not yet released, its count being the number of
\* those (so N acquires and N derefs leave the registry without the key,
\* and fewer derefs leave it present); an acquire that succeeds returns
\* the object bound to the key, and that object is the one object of the
\* slot.
C1_AcquireDerefBalance ==
  Quiescent =>
    /\ \A k \in HostKeys :
         /\ hosts[k].ref = held[k] + MemberRefs(k)
         /\ hosts[k].ref > 0 => hosts[k].obj = 1
    /\ \A k \in EcmpKeys :
         /\ ecmpHosts[k].ref = heldEcmp[k]
         /\ ecmpHosts[k].ref > 0 => ecmpHosts[k].obj = 1
    /\ (last.op \in {"incRefOrCreateBcmHost", "incRefOrCreateBcmEcmpHost"}
          /\ last.res = "ok") => last.ret = 1

\* C1 witness: a key acquired twice has been dereferenced once and is
\* still present, the deref returning its object
C1_Witness ==
  /\ Quiescent
  /\ last.op = "derefBcmHost" /\ last.why = "none" /\ last.ret = 1
  /\ ops = MaxOps - 3
  /\ \E k \in HostKeys : held[k] = 1 /\ hosts[k].ref = 1

\* the step in which a failed incRefOrCreateBcmEcmpHost returns to its
\* caller
EcmpFailureReturns == pc = "rollback" /\ pc' = "idle"

\* C2: a failed ECMP host construction leaves the host table (the three
\* registries with the fields of their objects, and the port index) as it
\* was when incRefOrCreateBcmEcmpHost was called.
C2_FailedConstructionRestoresTable ==
  [][EcmpFailureReturns => Snapshot' = ctx.pre]_vars

\* C3: after a failed ECMP host construction every member key has the
\* reference count it had before the call (0, i.e. absent, for a key that
\* was absent).
C3_FailedConstructionReleasesMembers ==
  [][EcmpFailureReturns =>
       \A k \in HostKeys : hosts'[k].ref = ctx.pre.hosts[k].ref]_vars

\* C3 witness: the construction failed acquiring a member after it had
\* acquired another one
C3_Witness ==
  /\ Quiescent
  /\ last.op = "incRefOrCreateBcmEcmpHost" /\ last.res = "fail"
  /\ last.why = "alloc" /\ last.n >= 1

\* a dereference of a key that is not in its registry has just returned
\* or aborted
DerefOfAbsentKey ==
  /\ last.op \in {"derefBcmHost", "derefBcmEcmpHost"}
  /\ last.why = "absent"

\* C4 as claimed: dereferencing a key that is not in its registry aborts
\* the process.
C4_DerefAbsentIsFatal == DerefOfAbsentKey => fatal

\* C4 as amended: dereferencing a key that is not in its registry returns
\* nullptr and changes nothing in the table; the process goes on.
C4_DerefAbsentReturnsNull ==
  [][(DerefOfAbsentKey' /\ ops' = ops - 1) =>
       /\ ~fatal'
       /\ last'.ret = 0
       /\ Snapshot' = Snapshot
       /\ hwHosts' = hwHosts]_vars

\* C4 witness: such a dereference has returned
C4_Witness == DerefOfAbsentKey /\ ~fatal /\ last.res = "ok"

\* C5: the port index holds no egress id that is not in the egress
\* registry.
C5_PortIndexWithinEgressRegistry ==
  \A p \in Ports : \A e \in port2EgressIds[p] : egressMap[e].ref > 0

\* C5 case: a host entry that was programmed to a port has been destroyed
\* and its egress object released
C5_StaleAfterDestruction ==
  /\ Quiescent
  /\ last.op = "derefBcmHost" /\ last.why = "none" /\ last.ret = 0
  /\ \E p \in Ports : \E e \in port2EgressIds[p] : egressMap[e].ref = 0

\* C6: between operations, the egress id of every live host entry (when
\* it has one), and the visible egress id and the group id (when it has
\* one) of every live ECMP host, are in the egress registry with a
\* count of at least 1.
C6_ReferencedEgressInRegistry ==
  Quiescent =>
    /\ \A k \in HostKeys :
         (hosts[k].ref > 0 /\ hosts[k].egressId # INVALID) =>
           /\ hosts[k].egressId \in EgressIds
           /\ egressMap[hosts[k].egressId].ref >= 1
    /\ \A k \in EcmpKeys :
         ecmpHosts[k].ref > 0 =>
           /\ ecmpHosts[k].egressId \in EgressIds
           /\ egressMap[ecmpHosts[k].egressId].ref >= 1
           /\ ecmpHosts[k].ecmpEgressId # INVALID =>
                /\ ecmpHosts[k].ecmpEgressId \in EgressIds
                /\ egressMap[ecmpHosts[k].ecmpEgressId].ref >= 1

\* C6 witness: a live host entry refers to an egress object, and the last
\* operation released a reference on a host entry
C6_Witness ==
  /\ Quiescent
  /\ last.op = "derefBcmHost" /\ last.why = "none"
  /\ \E k \in HostKeys :
       /\ hosts[k].ref > 0 /\ hosts[k].egressId # INVALID
       /\ \E j \in HostKeys : j # k /\ hosts[j].ref = 0

\* the step in which incRefOrCreateBcmEcmpHost returns a new ECMP host
EcmpConstructed == pc = "ctor" /\ pc' = "idle"

\* C7: a new ECMP host over one next hop has no group id, its
\* construction put no group into the egress registry, and its egress id
\* is its member's; a new ECMP host over several next hops has a group
\* that was put into the egress registry with count 1 under an id that
\* was free, whose paths are the members' egress ids in the order of the
\* next hops, and its egress id and group id are both that id.
C7_SinglePathNoGroupElseGroup ==
  [][EcmpConstructed =>
       LET key == ctx.key
           h == ecmpHosts'[key]
           member(i) == hosts'[MemberKey(key[1], key[2][i])]
       IN IF Len(key[2]) = 1
          THEN /\ h.ecmpEgressId = INVALID
               /\ h.egressId = member(1).egressId
               /\ \A e \in EgressIds :
                    egressMap'[e].kind = "group" =>
                      egressMap'[e] = ctx.pre.egressMap[e]
          ELSE /\ h.ecmpEgressId \in EgressIds
               /\ h.egressId = h.ecmpEgressId
               /\ egressMap[h.ecmpEgressId].ref = 0
               /\ egressMap'[h.ecmpEgressId].ref = 1
               /\ egressMap'[h.ecmpEgressId].kind = "group"
               /\ egressMap'[h.ecmpEgressId].paths =
                    [i \in DOMAIN key[2] |-> member(i).egressId]
               /\ \A e \in EgressIds \ {h.ecmpEgressId} :
                    egressMap'[e] = egressMap[e]]_vars

\* C7 witness: an ECMP host over one next hop and an ECMP host over two
\* next hops with different members are alive
C7_Witness ==
  /\ Quiescent
  /\ \E k1, k2 \in EcmpKeys :
       /\ ecmpHosts[k1].ref > 0 /\ Len(k1[2]) = 1
       /\ ecmpHosts[k1].ecmpEgressId = INVALID
       /\ ecmpHosts[k2].ref > 0 /\ Len(k2[2]) = 2
       /\ ecmpHosts[k2].ecmpEgressId # INVALID
       /\ egressMap[ecmpHosts[k2].ecmpEgressId].paths[1] #
            egressMap[ecmpHosts[k2].ecmpEgressId].paths[2]

\* C8: while an ECMP host is being destroyed, no member has been released
\* as long as the release of the group egress object is still to come.
C8_GroupReleasedBeforeMembers ==
  pc = "dtor" =>
    ~ /\ \E i \in DOMAIN ctx.done : ctx.done[i][1] = "host"
      /\ \E i \in DOMAIN ctx.steps : ctx.steps[i][1] = "egress"

\* C8 witness: the destructor of an ECMP host with a group has released
\* the group and then a member
C8_Witness ==
  /\ pc = "dtor"
  /\ Len(ctx.done) = 2
  /\ ctx.done[1][1] = "egress" /\ ctx.done[2][1] = "host"
  /\ egressMap[ctx.done[1][2]].ref = 0
  /\ hosts[ctx.done[2][2]].ref = 0

\* the step that is a linkStateChanged call that returns
LinkStateReturns ==
  /\ ops' = ops - 1
  /\ last'.op = "linkStateChanged"
  /\ ~fatal'

\* C9: linkStateChanged(port, up) sets, on the group of every live ECMP
\* host, the paths whose egress id is in the port's index to reachable
\* (up) or unreachable (down) and leaves the other paths as they were; it
\* changes no other egress object and nothing else in the table; with
\* nothing in the port's index it changes nothing.
C9_LinkStateMarksAffectedPaths ==
  [][LinkStateReturns =>
       LET port == last'.arg[1]
           up == last'.arg[2]
           affected == port2EgressIds[port]
           groups == {ecmpHosts[k].ecmpEgressId :
                        k \in {x \in EcmpKeys :
                                 /\ ecmpHosts[x].ref > 0
                                 /\ ecmpHosts[x].ecmpEgressId # INVALID}}
       IN /\ \A e \in EgressIds :
               IF e \in groups
               THEN /\ egressMap'[e].ref = egressMap[e].ref
                    /\ egressMap'[e].kind = egressMap[e].kind
                    /\ egressMap'[e].paths = egressMap[e].paths
                    /\ \A i \in DOMAIN egressMap[e].paths :
                         egressMap'[e].reach[i] =
                           IF egressMap[e].paths[i] \in affected
                           THEN up
                           ELSE egressMap[e].reach[i]
               ELSE egressMap'[e] = egressMap[e]
          /\ affected = {} => egressMap' = egressMap
          /\ UNCHANGED <<hosts, ecmpHosts, port2EgressIds, hwHosts>>]_vars

\* C9 witness: a link went down and the group of a live ECMP host has one
\* path marked unreachable and the other still reachable
C9_Witness ==
  /\ Quiescent
  /\ last.op = "linkStateChanged" /\ last.arg[2] = FALSE
  /\ \E k \in EcmpKeys :
       /\ ecmpHosts[k].ref > 0 /\ ecmpHosts[k].ecmpEgressId # INVALID
       /\ LET g == egressMap[ecmpHosts[k].ecmpEgressId]
          IN /\ g.reach = <<FALSE, TRUE>>
             /\ g.paths[1] \in port2EgressIds[last.arg[1]]
             /\ g.paths[2] \notin port2EgressIds[last.arg[1]]

\* the step that is a program call of a caller that returns normally
ProgramReturns ==
  /\ ops' = ops - 1
  /\ last'.op = "program"
  /\ last'.res = "ok"

\* C10: no host entry is added to the hardware more than once; a program
\* call on a host entry that was added before adds nothing to the
\* hardware; and every program call that returns takes the entry's egress
\* id out of the index of the port the entry had (if not 0) and puts it
\* into the index of the port given (if not 0).
C10_OneHardwareAddIndexAlwaysUpdated ==
  [][/\ \A k \in HostKeys : hosts'[k].adds <= 1
     /\ ProgramReturns =>
          LET k == last'.arg[1]
              oldPort == last'.arg[2]
              port == last'.arg[3]
              wasAdded == last'.arg[4]
              id == hosts'[k].egressId
          IN /\ port2EgressIds' =
                  [p \in Ports |->
                     IF p = port /\ port # 0
                     THEN port2EgressIds[p] \cup {id}
                     ELSE IF p = oldPort /\ oldPort # 0
                     THEN port2EgressIds[p] \ {id}
                     ELSE port2EgressIds[p]]
             /\ hosts'[k].added
             /\ wasAdded => /\ hwHosts' = hwHosts
                            /\ hosts'[k].adds = hosts[k].adds]_vars

\* C10 witness: a host entry that was added and indexed under port 1 has
\* been programmed again, to port 2
C10_Witness ==
  /\ Quiescent
  /\ last.op = "program" /\ last.res = "ok"
  /\ last.arg[2] = 1 /\ last.arg[3] = 2 /\ last.arg[4] = TRUE
  /\ hosts[last.arg[1]].adds = 1
  /\ hosts[last.arg[1]].egressId \in port2EgressIds[2]
  /\ hosts[last.arg[1]].egressId \notin port2EgressIds[1]

\* the step that is a program or addBcmHost call of a caller, returning
\* or aborting
AddStep ==
  /\ ops' = ops - 1
  /\ last'.op \in {"program", "addBcmHost"}

\* the entry found in the warm boot cache during the call that completed
\* last agrees with the entry the software computed in the address
\* family flag, the multipath flag, the domain and the egress reference
FoundMatches(l) ==
  /\ l.wb # <<>>
  /\ l.wb[2].v6 = l.wb[1].v6
  /\ l.wb[2].multipath = l.wb[1].multipath
  /\ l.wb[2].vrf = l.wb[1].vrf
  /\ l.wb[2].intf = l.wb[1].intf

\* C11: the first program (or addBcmHost) call on a host entry whose key
\* has a matching discovered entry issues no hardware add, takes that
\* entry out of the cache (acknowledges it) and marks the host entry
\* programmed; a call on an entry that is programmed already neither adds
\* nor consults or acknowledges anything; the cache never gets an entry
\* back, so no entry is acknowledged twice.
C11_WarmBootMatchNoAdd ==
  [][/\ warmBootCache' \subseteq warmBootCache
     /\ AddStep =>
          LET k == last'.arg[1]
              wasAdded == last'.arg[4]
          IN /\ FoundMatches(last') =>
                  /\ ~wasAdded
                  /\ ~fatal' /\ last'.res = "ok"
                  /\ k \in warmBootCache
                  /\ warmBootCache' = warmBootCache \ {k}
                  /\ hwHosts' = hwHosts
                  /\ hosts'[k].adds = hosts[k].adds
                  /\ hosts'[k].added
             /\ wasAdded =>
                  /\ last'.wb = <<>>
                  /\ warmBootCache' = warmBootCache
                  /\ hwHosts' = hwHosts
                  /\ hosts'[k].adds = hosts[k].adds]_vars

\* C11 witness: a host entry that became programmed by a matching
\* discovered entry, without a hardware add, has been programmed again
C11_Witness ==
  /\ Quiescent
  /\ last.op = "program" /\ last.res = "ok" /\ last.arg[4] = TRUE
  /\ LET k == last.arg[1]
     IN /\ hosts[k].added /\ hosts[k].adds = 0
        /\ k \in hwHosts /\ k \notin warmBootCache

\* C12: a program (or addBcmHost) call that finds a discovered entry that
\* differs from the computed one in the address family flag, the
\* multipath flag, the domain or the egress reference aborts the process;
\* no hardware add is issued, the entry stays in the cache unacknowledged
\* and the host entry is not marked programmed.
C12_WarmBootMismatchAborts ==
  [][(AddStep /\ last'.wb # <<>> /\ ~FoundMatches(last')) =>
       LET k == last'.arg[1]
       IN /\ fatal' /\ last'.res = "fatal"
          /\ warmBootCache' = warmBootCache
          /\ k \in warmBootCache
          /\ hwHosts' = hwHosts
          /\ hosts'[k].adds = hosts[k].adds
          /\ ~hosts'[k].added]_vars

\* C12 witness: the process aborted on a discovered entry that differs
\* from the computed one in the egress reference only
C12_Witness ==
  /\ fatal
  /\ last.op = "program" /\ last.wb # <<>>
  /\ last.wb[2].intf # last.wb[1].intf
  /\ last.wb[2].v6 = last.wb[1].v6
  /\ last.wb[2].multipath = last.wb[1].multipath
  /\ last.wb[2].vrf = last.wb[1].vrf

\* C13: a step that takes the last reference of a host entry removes it
\* from the registry; if it was programmed the hardware entry of its key
\* is deleted, if not the hardware is left alone; and whenever the entry
\* had an egress id, one reference on that egress object is released.
C13_DestructionReleasesEgress ==
  [][\A k \in HostKeys :
       (hosts[k].ref >= 1 /\ hosts'[k].ref = 0 /\ ~fatal') =>
         /\ hosts[k].ref = 1
         /\ hosts'[k] = NoHost
         /\ hosts[k].added => k \notin hwHosts'
         /\ ~hosts[k].added => hwHosts' = hwHosts
         /\ hosts[k].egressId # INVALID =>
              egressMap'[hosts[k].egressId].ref =
                egressMap[hosts[k].egressId].ref - 1]_vars

\* the step leaves the registries, their counts and objects, the port
\* index, the hardware and the warm boot cache as they are
TableUnchanged ==
  /\ Snapshot' = Snapshot
  /\ hwHosts' = hwHosts
  /\ warmBootCache' = warmBootCache
  /\ fatal' = fatal

\* C14: getBcmHostIf and getBcmEcmpHostIf return the object of a key that
\* is in the registry and nullptr for one that is not; getBcmHost and
\* getBcmEcmpHost return the object of a key that is in the registry and
\* throw for one that is not; none of the four changes the table.
C14_LookupsReadOnly ==
  [][/\ \A k \in HostKeys :
          /\ GetHostIf(k) =>
               /\ last'.res = "ok"
               /\ hosts[k].ref > 0 => last'.ret = hosts[k].obj /\ last'.ret # 0
               /\ hosts[k].ref = 0 => last'.ret = 0
               /\ TableUnchanged
          /\ GetHost(k) =>
               /\ hosts[k].ref > 0 =>
                    /\ last'.res = "ok"
                    /\ last'.ret = hosts[k].obj /\ last'.ret # 0
               /\ hosts[k].ref = 0 =>
                    last'.res = "fail" /\ last'.why = "notfound"
               /\ TableUnchanged
     /\ \A k \in EcmpKeys :
          /\ GetEcmpHostIf(k) =>
               /\ last'.res = "ok"
               /\ ecmpHosts[k].ref > 0 =>
                    last'.ret = ecmpHosts[k].obj /\ last'.ret # 0
               /\ ecmpHosts[k].ref = 0 => last'.ret = 0
               /\ TableUnchanged
          /\ GetEcmpHost(k) =>
               /\ ecmpHosts[k].ref > 0 =>
                    /\ last'.res = "ok"
                    /\ last'.ret = ecmpHosts[k].obj /\ last'.ret # 0
               /\ ecmpHosts[k].ref = 0 =>
                    last'.res = "fail" /\ last'.why = "notfound"
               /\ TableUnchanged]_vars

\* C14 witness: with a host entry and an ECMP host in the registries, a
\* must-exist lookup of an ECMP host failed
C14_Witness ==
  /\ Quiescent
  /\ last.op = "getBcmEcmpHost" /\ last.res = "fail"
  /\ \E k \in HostKeys : hosts[k].ref > 0
  /\ \E k \in EcmpKeys : ecmpHosts[k].ref > 0

\* C15: an incRefOrCreateBcmHost or incRefOrCreateBcmEcmpHost that fails
\* constructing the object of a key that was not in the registry leaves
\* the key out of the registry, and whenever an operation has returned
\* every key in a registry is bound to an object.
C15_FailedCreateLeavesNoPlaceholder ==
  [][/\ \A k \in HostKeys :
          ((AcquireHost(k) \/ \E e \in EgressIds : AcquireHostWithEgress(k, e))
             /\ last'.res = "fail") =>
            hosts[k] = NoHost /\ hosts'[k] = NoHost
     /\ EcmpFailureReturns =>
          /\ ctx.pre.ecmpHosts[ctx.key] = NoEcmpHost
          /\ ecmpHosts'[ctx.key] = NoEcmpHost
     /\ (pc' = "idle" /\ ~fatal') =>
          /\ \A k \in HostKeys : hosts'[k].ref > 0 => hosts'[k].obj # 0
          /\ \A k \in EcmpKeys :
               ecmpHosts'[k].ref > 0 => ecmpHosts'[k].obj # 0]_vars

\* C15 witness: with another ECMP host in the registry, the construction
\* of an ECMP host has failed programming its group, after it had acquired
\* all its members
C15_Witness ==
  /\ Quiescent
  /\ last.op = "incRefOrCreateBcmEcmpHost" /\ last.res = "fail"
  /\ last.why = "group" /\ last.n = 2
  /\ \E k \in EcmpKeys : ecmpHosts[k].ref > 0

\* the hardware holds an entry for key k that the software has added or
\* has claimed from the warm boot cache
HardwareResident(k) == k \in hwHosts /\ k \notin warmBootCache

\* C16: as long as the process has not aborted, a key has a host entry
\* with the programmed flag set exactly when its hardware add step has
\* been made (the hardware holds its entry, added or claimed); a step
\* that destroys a host entry takes an entry out of the hardware exactly
\* when the host entry was hardware-resident; and a host entry that stays
\* in the registry keeps a flag that was set.
C16_ProgrammedIffHardwareResident ==
  [][~fatal' =>
       \A k \in HostKeys :
         /\ (hosts'[k].ref > 0 /\ hosts'[k].added) <=>
              (k \in hwHosts' /\ k \notin warmBootCache')
         /\ (hosts[k].ref >= 1 /\ hosts'[k].ref = 0) =>
              /\ (k \in hwHosts /\ k \notin warmBootCache) <=> hosts[k].added
              /\ hwHosts' = IF hosts[k].added THEN hwHosts \ {k}
                            ELSE hwHosts
              /\ hosts[k].added => k \in hwHosts
         /\ (hosts[k].ref > 0 /\ hosts[k].added /\ hosts'[k].ref > 0) =>
              hosts'[k].added]_vars

\* C16 witness: of two host entries one is programmed and
\* hardware-resident, the other has an egress object and is neither (its
\* hardware add failed), and the last operation destroyed neither
C16_Witness ==
  /\ Quiescent
  /\ \E k1, k2 \in HostKeys :
       /\ hosts[k1].ref > 0 /\ hosts[k1].added /\ HardwareResident(k1)
       /\ hosts[k2].ref > 0 /\ ~hosts[k2].added
       /\ hosts[k2].egressId # INVALID /\ ~HardwareResident(k2)

\* the step in which one round of the loop of the ECMP host constructor
\* ends normally
MemberAcquired ==
  /\ pc = "ctor" /\ pc' = "ctor" /\ ~fatal'
  /\ Len(ctx'.done) = Len(ctx.done) + 1

\* C17: a round of the loop of the ECMP host constructor that finds its
\* member programmed only adds one to the member's count: no egress
\* object is programmed and the member's egress id, port and flag, the
\* egress registry and the port index stay as they are.  A round that
\* finds its member not programmed makes exactly one egress programming
\* call, to the CPU, on the hardware interface of the next hop's
\* interface id, for the member's egress object, and leaves the member
\* programmed with port 0.
C17_MembersPuntedToCpuOnce ==
  [][MemberAcquired =>
       LET nhop == Head(ctx.rest)
           k == MemberKey(ctx.key[1], nhop)
           call == ctx'.done[Len(ctx'.done)][2]
       IN /\ ctx'.done[Len(ctx'.done)][1] = nhop
          /\ hosts'[k].ref = hosts[k].ref + 1
          /\ IF hosts[k].ref > 0 /\ hosts[k].added
             THEN /\ call = <<>>
                  /\ hosts'[k] = [hosts[k] EXCEPT !.ref = @ + 1]
                  /\ egressMap' = egressMap
                  /\ port2EgressIds' = port2EgressIds
                  /\ hwHosts' = hwHosts
             ELSE /\ call = <<hosts'[k].egressId, "cpu", nhop[1] + NumIntfs>>
                  /\ hosts'[k].added
                  /\ hosts'[k].port = 0
                  /\ port2EgressIds' = port2EgressIds]_vars

\* C17 witness: a constructor has found its first member programmed, to a
\* port, and has programmed its second member to the CPU
C17_Witness ==
  /\ pc = "ctor" /\ ~fatal
  /\ Len(ctx.done) = 2
  /\ ctx.done[1][2] = <<>>
  /\ hosts[MemberKey(ctx.key[1], ctx.done[1][1])].port # 0
  /\ ctx.done[2][2] # <<>>
  /\ ctx.done[2][2][2] = "cpu"

\* C18: a linkStateChanged call that returns leaves the host registry,
\* the ECMP host registry and the port index as they are, and leaves
\* every egress id with its object, its count and, for a group, its
\* paths: no egress object is created, destroyed or rebuilt; the hardware
\* host entries and the warm boot cache stay as they are too.
C18_LinkStateChangesReachabilityOnly ==
  [][LinkStateReturns =>
       /\ UNCHANGED <<hosts, ecmpHosts, port2EgressIds, hwHosts,
                      warmBootCache, held, heldEcmp>>
       /\ \A e \in EgressIds :
            /\ egressMap'[e].ref = egressMap[e].ref
            /\ egressMap'[e].kind = egressMap[e].kind
            /\ egressMap'[e].paths = egressMap[e].paths
            /\ egressMap[e].kind # "group" => egressMap'[e] = egressMap[e]]_vars

\* C18 witness: a link came up for a port under which a path of the group
\* of a live ECMP host is indexed
C18_Witness ==
  /\ Quiescent
  /\ last.op = "linkStateChanged" /\ last.arg[2] = TRUE
  /\ \E k \in EcmpKeys :
       /\ ecmpHosts[k].ref > 0 /\ ecmpHosts[k].ecmpEgressId # INVALID
       /\ \E i \in DOMAIN egressMap[ecmpHosts[k].ecmpEgressId].paths :
            egressMap[ecmpHosts[k].ecmpEgressId].paths[i]
              \in port2EgressIds[last.arg[1]]

\* the step that is a call of the egress registry function named
EgressCall(op) ==
  /\ ops' = ops - 1
  /\ last'.op = op

\* every egress id but the one given keeps its object and count
OtherEgressUnchanged(id) ==
  \A e \in EgressIds \ {id} : egressMap'[e] = egressMap[e]

\* C19: insertBcmEgress puts a new object into the registry with count 1
\* when its id is not there, and aborts, leaving the registry as it is,
\* when it is; incEgressReference and derefEgress abort on an id that is
\* not in the registry, leaving it as it is; incEgressReference adds one
\* to the count; derefEgress takes one off and erases the object exactly
\* when the count was 1.
C19_EgressRegistryContracts ==
  [][LET id == last'.arg[1]
     IN /\ EgressCall("insertBcmEgress") =>
             IF egressMap[id].ref = 0
             THEN /\ ~fatal'
                  /\ egressMap'[id].ref = 1
                  /\ egressMap'[id].kind # "none"
                  /\ OtherEgressUnchanged(id)
             ELSE fatal' /\ egressMap' = egressMap
        /\ EgressCall("incEgressReference") =>
             IF egressMap[id].ref = 0
             THEN fatal' /\ egressMap' = egressMap
             ELSE /\ ~fatal'
                  /\ egressMap'[id] =
                       [egressMap[id] EXCEPT !.ref = @ + 1]
                  /\ OtherEgressUnchanged(id)
        /\ EgressCall("derefEgress") =>
             IF egressMap[id].ref = 0
             THEN fatal' /\ egressMap' = egressMap
             ELSE /\ ~fatal'
                  /\ OtherEgressUnchanged(id)
                  /\ IF egressMap[id].ref = 1
                     THEN egressMap'[id] = NoEgress
                     ELSE egressMap'[id] =
                            [egressMap[id] EXCEPT !.ref = @ - 1]]_vars

\* C19 witness: an object was registered, referenced once more and
\* dereferenced, and a second insertBcmEgress with its id has aborted
C19_Witness ==
  /\ fatal
  /\ last.op = "insertBcmEgress"
  /\ ops = MaxOps - 4
  /\ egressMap[last.arg[1]].ref = 1

\* C20: nothing is ever indexed under port 0; a program call that returns
\* changes the set of the entry's old port, if that is not 0, by taking
\* the egress id out, and the set of the port given, if that is not 0, by
\* putting the egress id in, and no other set; so a call that programs
\* the entry to drop or to the CPU (port 0) takes the id out of the old
\* port's set and puts it into none.
C20_PortZeroNeverIndexed ==
  [][/\ port2EgressIds'[0] = {}
     /\ ProgramReturns =>
          LET k == last'.arg[1]
              oldPort == last'.arg[2]
              port == last'.arg[3]
              id == hosts'[k].egressId
          IN /\ \A p \in Ports \ {oldPort, port} :
                  port2EgressIds'[p] = port2EgressIds[p]
             /\ oldPort # 0 /\ oldPort # port =>
                  port2EgressIds'[oldPort] = port2EgressIds[oldPort] \ {id}
             /\ port # 0 =>
                  port2EgressIds'[port] = port2EgressIds[port] \cup {id}
             /\ port = 0 =>
                  \A p \in Ports :
                    /\ port2EgressIds'[p] \subseteq port2EgressIds[p]
                    /\ p = oldPort => id \notin port2EgressIds'[p]]_vars

\* C20 witness: a host entry that was indexed under port 1 has been
\* programmed to drop, and its egress id is in no port's set
C20_Witness ==
  /\ Quiescent
  /\ last.op = "program" /\ last.res = "ok"
  /\ last.arg[2] = 1 /\ last.arg[3] = 0
  /\ hosts[last.arg[1]].port = 0
  /\ \A p \in Ports :
       hosts[last.arg[1]].egressId \notin port2EgressIds[p]

\* the live holders of egress id e: the host entries in the registry whose
\* egress id is e, and the live ECMP hosts that own e as their group
Holders(e) ==
  Cardinality({k \in HostKeys : hosts[k].ref > 0 /\ hosts[k].egressId = e})
  + Cardinality({k \in EcmpKeys :
                   ecmpHosts[k].ref > 0 /\ ecmpHosts[k].ecmpEgressId = e})

\* C21: between operations the count of every egress object is the number
\* of its live holders (host entries whose egress id it is, plus one when
\* a live ECMP host owns it as its group); hence once every acquired host
\* and ECMP host reference is released the egress registry is empty.
C21_EgressCountsMatchHolders ==
  Quiescent =>
    /\ \A e \in EgressIds : egressMap[e].ref = Holders(e)
    /\ ( /\ \A k \in HostKeys : held[k] = 0
         /\ \A k \in EcmpKeys : heldEcmp[k] = 0 )
         => \A e \in EgressIds : egressMap[e] = NoEgress

\* C21 case: the last reference of a host entry whose program call had
\* failed at the hardware add has been released, nothing is held any more,
\* and the egress object that call registered is still in the registry
C21_OrphanedEgress ==
  /\ Quiescent
  /\ last.op = "derefBcmHost" /\ last.why = "none" /\ last.ret = 0
  /\ \A k \in HostKeys : held[k] = 0 /\ hosts[k].ref = 0
  /\ \A k \in EcmpKeys : heldEcmp[k] = 0 /\ ecmpHosts[k].ref = 0
  /\ \E e \in EgressIds : egressMap[e].ref = 1 /\ Holders(e) = 0

\* the member egress ids of the group egress objects in the registry that
\* are themselves not in the registry
DanglingMembers ==
  {<<g, i>> \in EgressIds \X (1..MaxPaths) :
     /\ egressMap[g].ref > 0 /\ egressMap[g].kind = "group"
     /\ i \in DOMAIN egressMap[g].paths
     /\ egressMap[egressMap[g].paths[i]].ref = 0}

\* C22: in every state, the steps inside the construction, the rollback
\* and the destruction of an ECMP host included, every member egress id
\* of a group egress object that is in the egress registry is in the
\* egress registry too.
C22_GroupMembersInRegistry == DanglingMembers = {}

\* C22 case: an ECMP host has been destroyed while a host entry created
\* on its group egress id is still live; the members are gone and the
\* group is still registered
C22_GroupOutlivesMembers ==
  /\ Quiescent
  /\ last.op = "derefBcmEcmpHost"
  /\ \A k \in EcmpKeys : ecmpHosts[k].ref = 0
  /\ \E k \in HostKeys : \E d \in DanglingMembers :
       hosts[k].ref > 0 /\ hosts[k].egressId = d[1]

\* the live host entries whose last associated port is not 0 and does not
\* have their egress id in its index set
Unindexed ==
  {k \in HostKeys :
     /\ hosts[k].ref > 0 /\ hosts[k].port # 0
     /\ hosts[k].egressId \notin port2EgressIds[hosts[k].port]}

\* C23: between operations, the egress id of every live host entry whose
\* last associated port is not 0 is in the index set of that port, also
\* when several host entries share one egress id and are programmed to
\* different ports in any order.
C23_PortIndexComplete == Quiescent => Unindexed = {}

\* C23 case: two live host entries share an egress id; the program call
\* that just returned moved one of them away from the port both were on,
\* and the other one is no longer indexed under that port
C23_SharedEgressReprogrammed ==
  /\ Quiescent
  /\ last.op = "program" /\ last.res = "ok"
  /\ \E k \in Unindexed : \E j \in HostKeys :
       /\ j # k /\ hosts[j].ref > 0
       /\ hosts[j].egressId = hosts[k].egressId
       /\ hosts[j].port # hosts[k].port

====
